---- MODULE Spec2Model ----
(***************************************************************************)
(* AWattPrice backend configuration (Backend/src/awattprice/config.py).    *)
(*                                                                         *)
(* A configuration document is the sequence of the lines of an INI file.   *)
(* A line is a record: a section header, an option, a blank line or a      *)
(* comment.  `upd` tells a line that was (re)generated by the program from *)
(* a line that is still the text read from the file, `nl` tells whether    *)
(* the line's text ends with a newline.                                    *)
(***************************************************************************)
EXTENDS Integers, Sequences, FiniteSets, TLC

VARIABLES
    phase,      \* which call is modelled and how far it got
    doc,        \* merge: the lines of the file at config_file_path
    overlay,    \* merge: the Box given to config_updater_factory
    mres,       \* merge: what config_updater_factory did
    wold,       \* write: the bytes of the file before the call (or NoFile)
    wdoc,       \* write: the document given to write_config_updater
    wnew,       \* write: the bytes and mode of the file after the call
    arg,        \* read: the path given to read_config, or "None"
    fs0,        \* read: the file system when read_config was called
    fs,         \* read: the file system
    env,        \* read: what the process may do, what the verifier will say
    rd          \* read: the locals of read_config, its log and how it ended

mvars == <<doc, overlay, mres>>
wvars == <<wold, wdoc, wnew>>
rvars == <<arg, fs0, fs, env, rd>>
vars == <<phase, doc, overlay, mres, wold, wdoc, wnew, arg, fs0, fs, env, rd>>

(***************************************************************************)
(* Bounds of the model.                                                    *)
(***************************************************************************)
MaxDocLines == 4     \* lines of a document
MaxOvSize == 4       \* sections plus options of an overlay

SecNames == {"a", "b", "c"}
DocSecNames == {"a", "b"}
KeyNames == {"k1", "k2", "k3"}
DocKeyNames == {"k1", "k2"}

(***************************************************************************)
(* Lines.                                                                  *)
(***************************************************************************)
Hdr(s) == [t |-> "hdr", name |-> s, val |-> "", upd |-> FALSE, nl |-> TRUE]
Opt(k, v) == [t |-> "opt", name |-> k, val |-> v, upd |-> FALSE, nl |-> TRUE]
Blank == [t |-> "space", name |-> "", val |-> "", upd |-> FALSE, nl |-> TRUE]
Cmt == [t |-> "cmt", name |-> "#", val |-> "", upd |-> FALSE, nl |-> TRUE]

\* The value the overlay carries for key k.
OvVal(k) == CASE k = "k1" -> "x" [] k = "k2" -> "y" [] OTHER -> "z"

SeqsUpTo(S, n) == UNION {[1..m -> S] : m \in 0..n}

Injective(f) == \A i, j \in DOMAIN f : f[i] = f[j] => i = j

\* Index of the header of section s in cu, 0 when cu has no such section.
HdrIdx(cu, s) ==
    LET I == {i \in DOMAIN cu : cu[i].t = "hdr" /\ cu[i].name = s}
    IN IF I = {} THEN 0 ELSE CHOOSE i \in I : \A j \in I : i <= j

\* Index of the last line of the section whose header is at index h.
SecEnd(cu, h) ==
    LET N == {i \in DOMAIN cu : i > h /\ cu[i].t = "hdr"}
    IN IF N = {} THEN Len(cu) ELSE (CHOOSE i \in N : \A j \in N : i <= j) - 1

\* Indices of the option lines of the section whose header is at index h.
OptIdxs(cu, h) == {i \in (h + 1)..SecEnd(cu, h) : cu[i].t = "opt"}

MaxOf(S) == CHOOSE i \in S : \A j \in S : j <= i
MinOf(S) == CHOOSE i \in S : \A j \in S : i <= j

\* ConfigUpdater.has_section
HasSection(cu, s) == HdrIdx(cu, s) # 0

\* Section.options(): the keys of section s, in document order.
RECURSIVE KeysOf(_, _, _)
KeysOf(cu, i, e) ==
    IF i > e THEN <<>>
    ELSE (IF cu[i].t = "opt" THEN <<cu[i].name>> ELSE <<>>) \o KeysOf(cu, i + 1, e)

Options(cu, s) == KeysOf(cu, HdrIdx(cu, s) + 1, SecEnd(cu, HdrIdx(cu, s)))

\* ConfigUpdater.sections(): the section names, in document order.
RECURSIVE SectionsFrom(_, _)
SectionsFrom(cu, i) ==
    IF i > Len(cu) THEN <<>>
    ELSE (IF cu[i].t = "hdr" THEN <<cu[i].name>> ELSE <<>>) \o SectionsFrom(cu, i + 1)

Sections(cu) == SectionsFrom(cu, 1)

\* `option in section`
HasOption(cu, s, k) == \E i \in OptIdxs(cu, HdrIdx(cu, s)) : cu[i].name = k

\* Index of the line of option k of section s.
OptIdx(cu, s, k) == MinOf({i \in OptIdxs(cu, HdrIdx(cu, s)) : cu[i].name = k})

InsertAt(cu, i, lines) == SubSeq(cu, 1, i) \o lines \o SubSeq(cu, i + 1, Len(cu))

\* Option.value = v: the line is regenerated from key, delimiter and value.
SetValue(cu, s, k, v) ==
    [cu EXCEPT ![OptIdx(cu, s, k)] = [@ EXCEPT !.val = v, !.upd = TRUE, !.nl = TRUE]]

\* section[anchor].add_after.option(k, v)
AddAfterOption(cu, s, anchor, k, v) ==
    InsertAt(cu, OptIdx(cu, s, anchor),
             <<[t |-> "opt", name |-> k, val |-> v, upd |-> TRUE, nl |-> TRUE]>>)

\* updater[anchor].add_after.space().section(sec): one "\n", then the section.
AddSpaceSectionAfter(cu, anchor, sec) ==
    InsertAt(cu, SecEnd(cu, HdrIdx(cu, anchor)), <<Blank>> \o sec)

(***************************************************************************)
(* config_updater_factory                                                  *)
(***************************************************************************)
\* MergeOptions without line 64: the "last option" pointer never advances.
RECURSIVE MergeOptionsStalePointer(_, _, _, _)
MergeOptionsStalePointer(cu, s, items, last_option) ==
    IF items = <<>> THEN cu
    ELSE LET option == Head(items).key
             value == Head(items).val
         IN IF HasOption(cu, s, option)
            THEN MergeOptionsStalePointer(SetValue(cu, s, option, value), s,
                                          Tail(items), last_option)
            ELSE MergeOptionsStalePointer(
                   AddAfterOption(cu, s, last_option, option, value),
                   s, Tail(items), last_option)

\* MergeOptions without the test of line 60: every option is added.
RECURSIVE MergeOptionsAlwaysAdd(_, _, _, _)
MergeOptionsAlwaysAdd(cu, s, items, last_option) ==
    IF items = <<>> THEN cu
    ELSE MergeOptionsAlwaysAdd(
           AddAfterOption(cu, s, last_option, Head(items).key, Head(items).val),
           s, Tail(items), Head(items).key)

\* Lines 59-64: the options of one overlay section that the document has.
RECURSIVE MergeOptions(_, _, _, _)
MergeOptions(cu, s, items, last_option) ==
    IF items = <<>> THEN cu
    ELSE LET option == Head(items).key
             value == Head(items).val
         IN IF HasOption(cu, s, option)
            THEN MergeOptions(SetValue(cu, s, option, value), s, Tail(items), last_option)
            ELSE MergeOptions(AddAfterOption(cu, s, last_option, option, value),
                              s, Tail(items), option)

\* Lines 67-72: tmp_updater.read_string(section_txt)[section].  The text is
\* "[section]\n" followed by the "key: value" lines joined by "\n": the last
\* option line has no newline at its end.
RECURSIVE OptionLines(_)
OptionLines(items) ==
    IF items = <<>> THEN <<>>
    ELSE <<[t |-> "opt", name |-> Head(items).key, val |-> Head(items).val,
            upd |-> FALSE, nl |-> Len(items) > 1]>> \o OptionLines(Tail(items))

NewSection(s, items) == <<Hdr(s)>> \o OptionLines(items)

\* Lines 55-72: the loop over the overlay's sections.  st is the loop's state:
\* the document, the staged sections and the exception raised, if any.
RECURSIVE MergeSections(_, _)
MergeSections(st, secs) ==
    IF secs = <<>> \/ st.err # "ok" THEN st
    ELSE LET section == Head(secs).name
             items == Head(secs).items
         IN IF HasSection(st.cu, section)
            THEN IF Options(st.cu, section) = <<>>
                 THEN [st EXCEPT !.err = "IndexError"]
                 ELSE LET opts == Options(st.cu, section)
                      IN MergeSections(
                           [st EXCEPT !.cu = MergeOptions(st.cu, section, items,
                                                          opts[Len(opts)])],
                           Tail(secs))
            ELSE MergeSections(
                   [st EXCEPT !.to_add = Append(st.to_add, NewSection(section, items))],
                   Tail(secs))

\* Lines 75-78: the staged sections, each after a blank line, chained.
RECURSIVE AddSections(_, _, _)
AddSections(cu, to_add, last_section) ==
    IF to_add = <<>> THEN cu
    ELSE AddSections(AddSpaceSectionAfter(cu, last_section, Head(to_add)),
                     Tail(to_add), Head(to_add)[1].name)

\* Lines 73-78.
AppendStaged(st) ==
    IF st.err # "ok" \/ st.to_add = <<>> THEN st
    ELSE IF Sections(st.cu) = <<>> THEN [st EXCEPT !.err = "IndexError"]
    ELSE LET secs == Sections(st.cu)
         IN [st EXCEPT !.cu = AddSections(st.cu, st.to_add, secs[Len(secs)])]

\* The function with the file opened before the path is looked for.
ConfigUpdaterFactoryOpenFirst(config, file) ==
    IF ~config.hasPath
    THEN [outcome |-> "AttributeError", opened |-> TRUE, cu |-> <<>>]
    ELSE LET st == AppendStaged(MergeSections(
                       [err |-> "ok", cu |-> file, to_add |-> <<>>], config.secs))
         IN [outcome |-> st.err, opened |-> TRUE,
             cu |-> IF st.err = "ok" THEN st.cu ELSE <<>>]

\* The whole function.  config is the Box: whether it holds config_file_path,
\* and its sections.  file is the parsed content of the file at that path.
ConfigUpdaterFactory(config, file) ==
    IF ~config.hasPath
    THEN [outcome |-> "AttributeError", opened |-> FALSE, cu |-> <<>>]
    ELSE LET st == AppendStaged(MergeSections(
                       [err |-> "ok", cu |-> file, to_add |-> <<>>], config.secs))
         IN [outcome |-> st.err, opened |-> TRUE,
             cu |-> IF st.err = "ok" THEN st.cu ELSE <<>>]

(***************************************************************************)
(* Text.  A file is a sequence of bytes; the model's byte is the text of a *)
(* line without its newline, or a newline.                                 *)
(***************************************************************************)
NL == [t |-> "nl", name |-> "", val |-> "", upd |-> FALSE]

Text(line) == [t |-> line.t, name |-> line.name, val |-> line.val, upd |-> line.upd]

\* ConfigUpdater.write / str(): the text of the lines, one after the other.
RECURSIVE Serialize(_)
Serialize(cu) ==
    IF cu = <<>> THEN <<>>
    ELSE (IF Head(cu).t = "space" THEN <<>> ELSE <<Text(Head(cu))>>)
         \o (IF Head(cu).nl THEN <<NL>> ELSE <<>>)
         \o Serialize(Tail(cu))

\* ConfigUpdater.read / read_file / read_string: the lines of a text.  A
\* line's kind is that of the text it starts with; an option line with more
\* text behind its value has that text in its value.
RECURSIVE Parse(_)
Parse(bytes) ==
    IF bytes = <<>> THEN <<>>
    ELSE IF Head(bytes).t = "nl" THEN <<Blank>> \o Parse(Tail(bytes))
    ELSE LET N == {i \in DOMAIN bytes : bytes[i].t = "nl"}
             e == IF N = {} THEN Len(bytes) + 1 ELSE MinOf(N)
             first == Head(bytes)
         IN <<[t |-> first.t, name |-> first.name,
               val |-> IF e > 2 /\ first.t = "opt" THEN "garbled" ELSE first.val,
               upd |-> first.upd, nl |-> N # {}]>>
            \o Parse(SubSeq(bytes, e + 1, Len(bytes)))

(***************************************************************************)
(* write_config_updater                                                    *)
(***************************************************************************)
NoFile == [exists |-> FALSE, bytes |-> <<>>, mode |-> "none"]

\* Lines 85-87.  os.open(path, O_WRONLY | O_CREAT, 0o600) creates the file
\* with mode 0600 if there is none and opens an existing file as it is,
\* without truncating it; the text is written from offset 0.
WriteConfigUpdater(f, cu) ==
    [exists |-> TRUE,
     bytes |-> Serialize(cu) \o SubSeq(f.bytes, Len(Serialize(cu)) + 1, Len(f.bytes)),
     mode |-> IF f.exists THEN f.mode ELSE "0600"]

(***************************************************************************)
(* read_config and bootstrap_config                                        *)
(***************************************************************************)
Paths == {"P", "ETC", "USER"}

NoRead ==
    [pc |-> "idle", path |-> "None", found |-> FALSE, cu |-> <<>>, status |-> "running",
     cause |-> "none", log |-> <<>>, trace |-> <<>>,
     result |-> [path |-> "None", cfg |-> <<>>]]

ReadIdle ==
    /\ arg = "None"
    /\ fs0 = [p \in Paths |-> [parent |-> "absent", file |-> NoFile]]
    /\ fs = fs0
    /\ env = [canCreate |-> FALSE, canRead |-> FALSE, permOk |-> FALSE]
    /\ rd = NoRead

(***************************************************************************)
(* The documents and overlays of the merge specification.                  *)
(***************************************************************************)
DocLines ==
    {Hdr(s) : s \in DocSecNames} \cup {Opt(k, "1") : k \in DocKeyNames} \cup {Blank, Cmt}

\* ConfigUpdater parses the text: no option before the first header, no
\* section twice, no key twice in a section.
WellFormed(cu) ==
    /\ \A i \in DOMAIN cu : cu[i].t = "opt" => \E h \in 1..(i - 1) : cu[h].t = "hdr"
    /\ \A i, j \in DOMAIN cu :
          cu[i].t = "hdr" /\ cu[j].t = "hdr" /\ cu[i].name = cu[j].name => i = j
    /\ \A i, j \in DOMAIN cu :
          /\ i < j /\ cu[i].t = "opt" /\ cu[j].t = "opt" /\ cu[i].name = cu[j].name
          => \E h \in (i + 1)..(j - 1) : cu[h].t = "hdr"

\* The merge treats all section names alike and all keys alike, and the
\* overlays range over every name in every order: of the documents that
\* differ only in names, the one with section "a" before "b" and, in every
\* section, key "k1" before "k2" is kept.
Canonical(cu) ==
    /\ \A i \in DOMAIN cu :
          cu[i].t = "hdr" /\ cu[i].name = "b" =>
             \E h \in 1..(i - 1) : cu[h].t = "hdr" /\ cu[h].name = "a"
    /\ \A i \in DOMAIN cu :
          cu[i].t = "opt" /\ cu[i].name = "k2" =>
             \E j \in 1..(i - 1) :
                 /\ cu[j].t = "opt" /\ cu[j].name = "k1"
                 /\ \A h \in j..i : cu[h].t # "hdr"

\* The documents of n lines: a document of n - 1 lines and one more line.
RECURSIVE DocsOfLen(_)
DocsOfLen(n) ==
    IF n = 0 THEN {<<>>}
    ELSE {d \in {Append(c, l) : c \in DocsOfLen(n - 1), l \in DocLines} :
             WellFormed(d) /\ Canonical(d)}

Docs == UNION {DocsOfLen(n) : n \in 0..MaxDocLines}

ItemSeqs ==
    {[i \in DOMAIN ks |-> [key |-> ks[i], val |-> OvVal(ks[i])]] :
        ks \in {q \in SeqsUpTo(KeyNames, Cardinality(KeyNames)) : Injective(q)}}

RECURSIVE ItemCount(_)
ItemCount(secs) == IF secs = <<>> THEN 0 ELSE Len(Head(secs).items) + ItemCount(Tail(secs))

Overlays ==
    {o \in SeqsUpTo([name : SecNames, items : ItemSeqs], Cardinality(SecNames)) :
        /\ \A i, j \in DOMAIN o : o[i].name = o[j].name => i = j
        /\ Len(o) + ItemCount(o) <= MaxOvSize}

\* The Box given to the factory: with config_file_path, or without it.
Configs ==
    [hasPath : {TRUE}, secs : Overlays]
    \cup [hasPath : {FALSE}, secs : {o \in Overlays : Len(o) <= 1}]

NoResult == [outcome |-> "none", opened |-> FALSE, cu |-> <<>>]

InitMerge ==
    /\ phase = "merge"
    /\ overlay \in Configs
    /\ doc \in Docs
    /\ mres = NoResult
    /\ wold = NoFile /\ wdoc = <<>> /\ wnew = NoFile
    /\ ReadIdle

\* A call of config_updater_factory(overlay) with doc in the file.
Merge ==
    /\ phase = "merge"
    /\ mres.outcome = "none"
    /\ mres' = ConfigUpdaterFactory(overlay, doc)
    /\ phase' = "merged"
    /\ UNCHANGED <<doc, overlay, wvars, rvars>>

NextMerge == Merge

SpecMerge == InitMerge /\ [][NextMerge]_vars

(***************************************************************************)
(* Properties of config_updater_factory.                                   *)
(***************************************************************************)
Merged == phase = "merged" /\ mres.outcome = "ok"

\* The name of the section that line i of cu belongs to.
SecOf(cu, i) ==
    LET H == {h \in 1..i : cu[h].t = "hdr"}
    IN IF H = {} THEN "" ELSE cu[MaxOf(H)].name

\* The items the overlay holds for section s.
ItemsOf(s) == (CHOOSE o \in {overlay.secs[i] : i \in DOMAIN overlay.secs} : o.name = s).items

OvSecNames == {overlay.secs[i].name : i \in DOMAIN overlay.secs}

RECURSIVE Pick(_, _, _)
Pick(cu, i, keep) ==
    IF i > Len(cu) THEN <<>>
    ELSE (IF i \in keep THEN <<cu[i]>> ELSE <<>>) \o Pick(cu, i + 1, keep)

\* The items of section s whose key the document's section s does not have.
RECURSIVE NewItems(_, _)
NewItems(s, items) ==
    IF items = <<>> THEN <<>>
    ELSE (IF HasOption(doc, s, Head(items).key) THEN <<>> ELSE <<Head(items)>>)
         \o NewItems(s, Tail(items))

\* The overlay's sections that the document does not have, in overlay order.
RECURSIVE NewSecs(_)
NewSecs(secs) ==
    IF secs = <<>> THEN <<>>
    ELSE (IF HasSection(doc, Head(secs).name) THEN <<>> ELSE <<Head(secs)>>)
         \o NewSecs(Tail(secs))

\* Index of the first line of the result that belongs to an appended section,
\* the blank line before it included.
FirstAdded(cu) ==
    LET N == {i \in DOMAIN cu : cu[i].t = "hdr" /\ ~HasSection(doc, cu[i].name)}
    IN IF N = {} THEN Len(cu) + 1 ELSE MinOf(N) - 1

\* The lines of the result that the document already had.
OldLines(cu) ==
    Pick(cu, 1, {i \in DOMAIN cu :
                   /\ i < FirstAdded(cu)
                   /\ cu[i].t = "opt" => HasOption(doc, SecOf(cu, i), cu[i].name)})

\* Line i of the document is an option the overlay has a value for.
Targeted(i) ==
    /\ doc[i].t = "opt"
    /\ SecOf(doc, i) \in OvSecNames
    /\ \E j \in DOMAIN ItemsOf(SecOf(doc, i)) : ItemsOf(SecOf(doc, i))[j].key = doc[i].name

OnlyUpdates ==
    \A i \in DOMAIN overlay.secs :
        /\ HasSection(doc, overlay.secs[i].name)
        /\ NewItems(overlay.secs[i].name, overlay.secs[i].items) = <<>>

\* C1: update in place.  After a merge, the lines the document had before are
\* all still there, in their order, with no line between them but added
\* options and sections; a line is changed only if it is an option the
\* overlay names, and then its value is the overlay's; no section or key is
\* there twice; and an overlay that names only existing keys adds no line.
C1_UpdateInPlace ==
    Merged =>
        LET old == OldLines(mres.cu)
        IN /\ Len(old) = Len(doc)
           /\ \A i \in DOMAIN doc :
                 IF Targeted(i)
                 THEN /\ old[i].t = "opt" /\ old[i].name = doc[i].name
                      /\ old[i].val = OvVal(doc[i].name)
                 ELSE old[i] = doc[i]
           /\ WellFormed(mres.cu)
           /\ OnlyUpdates => Len(mres.cu) = Len(doc)

C1_Witness ==
    /\ Merged
    /\ \E i \in DOMAIN doc : Targeted(i) /\ i < Len(doc) /\ mres.cu[i].val = "x"
    /\ \E i \in DOMAIN doc : doc[i].t = "cmt"
    /\ OnlyUpdates

\* C2: append ordering.  After a merge, in every section the overlay names
\* and the document has, the overlay's new keys stand on the lines right
\* after the line of the key that was last before, in overlay order and with
\* the overlay's values, and the section's keys are the old keys followed by
\* the new ones.
C2_AppendOrdering ==
    Merged =>
        \A s \in OvSecNames :
            HasSection(doc, s) =>
                LET new == NewItems(s, ItemsOf(s))
                    olds == Options(doc, s)
                    p == OptIdx(mres.cu, s, olds[Len(olds)])
                IN /\ olds # <<>>
                   /\ Options(mres.cu, s) = olds \o [j \in DOMAIN new |-> new[j].key]
                   /\ \A j \in DOMAIN new :
                         /\ mres.cu[p + j].t = "opt"
                         /\ mres.cu[p + j].name = new[j].key
                         /\ mres.cu[p + j].val = new[j].val

\* Two new keys with an existing key between them in the overlay, merged into
\* a section whose last key is followed by another line.
C2_Witness ==
    /\ Merged
    /\ \E s \in OvSecNames :
          /\ HasSection(doc, s)
          /\ Len(ItemsOf(s)) = 3
          /\ ~HasOption(doc, s, ItemsOf(s)[1].key)
          /\ HasOption(doc, s, ItemsOf(s)[2].key)
          /\ ~HasOption(doc, s, ItemsOf(s)[3].key)
          /\ doc[SecEnd(doc, HdrIdx(doc, s))].t # "opt"
          /\ Len(Options(mres.cu, s)) = 3

\* C4 as stated: an overlay without config_file_path fails with ConfigError,
\* before the file is opened and without a document being touched.
C4_AsStated ==
    phase = "merged" /\ ~overlay.hasPath =>
        mres.outcome = "ConfigError" /\ ~mres.opened /\ mres.cu = <<>>

\* C4, amended: an overlay without config_file_path fails with
\* AttributeError, before the file is opened and without a document being
\* read or changed.
C4_MissingPath ==
    phase = "merged" /\ ~overlay.hasPath =>
        mres.outcome = "AttributeError" /\ ~mres.opened /\ mres.cu = <<>>

C4_Witness ==
    phase = "merged" /\ ~overlay.hasPath /\ overlay.secs # <<>> /\ doc # <<>>

\* C10: merging into a section that has no entry does not fail, and the
\* overlay's keys become the section's entries, in overlay order.
C10_EmptySection ==
    /\ phase = "merged" /\ overlay.hasPath
    /\ \A s \in OvSecNames : HasSection(doc, s)
    /\ \E s \in OvSecNames : Options(doc, s) = <<>> /\ ItemsOf(s) # <<>>
    => /\ mres.outcome = "ok"
       /\ \A s \in OvSecNames :
             Options(doc, s) = <<>> =>
                Options(mres.cu, s) = [j \in DOMAIN ItemsOf(s) |-> ItemsOf(s)[j].key]

\* Where the header of section s stands in a text.
HdrPos(bytes, s) == MinOf({i \in DOMAIN bytes : bytes[i].t = "hdr" /\ bytes[i].name = s})

\* The number of empty lines right before position p of a text.
BlankLinesBefore(bytes, p) ==
    LET T == {i \in 1..(p - 1) : bytes[i].t # "nl"}
        last == IF T = {} THEN 0 ELSE MaxOf(T)
    IN IF last = 0 THEN p - 1 ELSE p - last - 2

\* The new sections stand after the document's sections, in overlay order,
\* each with the overlay's keys and values in overlay order.
C3_Placement ==
    Merged =>
        LET ns == NewSecs(overlay.secs)
        IN /\ Sections(mres.cu) = Sections(doc) \o [j \in DOMAIN ns |-> ns[j].name]
           /\ \A j \in DOMAIN ns :
                 LET h == HdrIdx(mres.cu, ns[j].name)
                 IN /\ SecEnd(mres.cu, h) - h >= Len(ns[j].items)
                    /\ \A q \in DOMAIN ns[j].items :
                          /\ mres.cu[h + q].t = "opt"
                          /\ mres.cu[h + q].name = ns[j].items[q].key
                          /\ mres.cu[h + q].val = ns[j].items[q].val
                    /\ Options(mres.cu, ns[j].name)
                          = [q \in DOMAIN ns[j].items |-> ns[j].items[q].key]

\* C3: new section placement.  After a merge the overlay's new sections
\* stand after the document's old sections in overlay order, with the
\* overlay's keys in overlay order, and in the text written each new section
\* has exactly one blank line before it.  Stated for the documents that do
\* not end in a blank line themselves.
C3_NewSectionPlacement ==
    /\ C3_Placement
    /\ Merged /\ doc # <<>> /\ doc[Len(doc)].t # "space" =>
          \A j \in DOMAIN NewSecs(overlay.secs) :
              BlankLinesBefore(Serialize(mres.cu),
                               HdrPos(Serialize(mres.cu), NewSecs(overlay.secs)[j].name)) = 1

(***************************************************************************)
(* write_config_updater(path, wdoc) on a path whose file is wold.          *)
(***************************************************************************)
FileModes == {"0600", "0644"}

InitWrite ==
    /\ phase = "write"
    /\ wold \in {NoFile} \cup [exists : {TRUE}, bytes : {Serialize(d) : d \in Docs},
                               mode : FileModes]
    /\ wdoc \in Docs
    /\ wnew = NoFile
    /\ doc = <<>> /\ overlay = [hasPath |-> FALSE, secs |-> <<>>] /\ mres = NoResult
    /\ ReadIdle

Write ==
    /\ phase = "write"
    /\ wnew' = WriteConfigUpdater(wold, wdoc)
    /\ phase' = "written"
    /\ UNCHANGED <<mvars, wold, wdoc, rvars>>

NextWrite == Write

SpecWrite == InitWrite /\ [][NextWrite]_vars

\* C5: whole-contents write.  After the call the file holds the text of the
\* document and nothing else, whatever it held before.  Stated for the
\* documents that are not empty.
C5_WholeContents ==
    phase = "written" /\ wdoc # <<>> => wnew.exists /\ wnew.bytes = Serialize(wdoc)

(***************************************************************************)
(* read_config(arg).                                                       *)
(*                                                                         *)
(* Section "a", key "k1" stands for the file_location and notification     *)
(* options whose quotes are stripped, section "b", key "k2" for            *)
(* notifications.use_sandbox.                                              *)
(***************************************************************************)
\* DEFAULT_CONFIG, the text of the default configuration.
DefaultDoc ==
    <<Hdr("a"), Opt("k1", "'d'"), Blank, Hdr("b"), Opt("k2", "True")>>

DEFAULT_CONFIG == Serialize(DefaultDoc)

\* What the files of the read specification hold: the default text, texts
\* shorter and longer than it, a text without use_sandbox, and texts that
\* do not parse.
ReadTexts ==
    {DEFAULT_CONFIG,
     Serialize(<<Hdr("a"), Opt("k1", "e"), Hdr("b"), Opt("k2", "false")>>),
     Serialize(<<Cmt, Hdr("a"), Opt("k1", "e"), Hdr("b"), Opt("k2", "maybe"), Cmt, Cmt>>),
     Serialize(<<Hdr("a"), Opt("k1", "e")>>),
     Serialize(<<Opt("k1", "e")>>),
     Serialize(<<Hdr("a"), Hdr("a")>>)}

Exists(f, p) == f[p].file.exists

\* Lines 93-99.
Candidates(a) == IF a = "None" THEN <<"ETC", "USER">> ELSE <<a>>

\* Lines 100-104: the first candidate that exists, "None" if there is none.
RECURSIVE FirstExisting(_, _)
FirstExisting(f, cands) ==
    IF cands = <<>> THEN "None"
    ELSE IF Exists(f, Head(cands)) THEN Head(cands)
    ELSE FirstExisting(f, Tail(cands))

\* The path read_config was given, bootstrapped when there is one.
BootstrapPathGiven(a) == IF a = "None" THEN "USER" ELSE a

\* Lines 106-107: the path that is bootstrapped when no candidate exists.
BootstrapPath(a) == "USER"

\* verify_file_permissions(path)
VerifyFilePermissions(p) == env.permOk

\* ConfigUpdater.to_dict: the options of the document, section by section.
RECURSIVE ToDictFrom(_, _)
ToDictFrom(cu, i) ==
    IF i > Len(cu) THEN <<>>
    ELSE (IF cu[i].t = "opt"
          THEN <<[sec |-> SecOf(cu, i), key |-> cu[i].name, val |-> cu[i].val]>>
          ELSE <<>>) \o ToDictFrom(cu, i + 1)

ToDict(cu) == ToDictFrom(cu, 1)

HasKey(cfg, s, k) == \E i \in DOMAIN cfg : cfg[i].sec = s /\ cfg[i].key = k

\* str.strip("\"'")
Strip(v) == IF v = "'d'" THEN "d" ELSE v

\* str.lower()
Lower(v) == IF v = "True" THEN "true" ELSE v

\* Lines 129-148 on one entry.
Coerce(e) ==
    IF e.sec = "a" /\ e.key = "k1" THEN [e EXCEPT !.val = Strip(e.val)]
    ELSE IF e.sec = "b" /\ e.key = "k2"
    THEN [e EXCEPT !.val = IF Lower(e.val) = "true" THEN "bool:True" ELSE "bool:False"]
    ELSE e

\* Lines 125-148: the configuration returned for document cu.
Resolved(cu) == [i \in DOMAIN ToDict(cu) |-> Coerce(ToDict(cu)[i])]

\* sys.exit(1) after log.error
ExitWithError(step) ==
    [rd EXCEPT !.log = Append(@, "error"), !.status = "exit(1)", !.pc = "done",
               !.cause = step, !.trace = Append(@, step)]

\* an exception that nothing in read_config catches
Raise(exc) ==
    [rd EXCEPT !.status = "raised", !.pc = "done", !.cause = exc,
               !.trace = Append(@, exc)]

\* Lines 113-115 with the verifier's answer ignored.
AfterVerifyIgnoring(ok) ==
    [rd EXCEPT !.pc = IF rd.found THEN "parse" ELSE "resolve",
               !.trace = Append(@, "perm_ok")]

\* Lines 113-117: what follows the permission check.
AfterVerify(ok) ==
    IF ~ok THEN ExitWithError("permissions")
    ELSE [rd EXCEPT !.pc = IF rd.found THEN "parse" ELSE "resolve",
                    !.trace = Append(@, "perm_ok")]

InitRead ==
    /\ phase = "read"
    /\ arg \in {"None", "P", "USER"}
    /\ fs0 \in [Paths ->
                 [parent : {"absent", "file"}, file : {NoFile}]
                 \cup [parent : {"dir"},
                       file : {NoFile} \cup [exists : {TRUE}, bytes : ReadTexts,
                                             mode : FileModes]]]
    /\ arg # "P" => fs0["P"] = [parent |-> "absent", file |-> NoFile]
    /\ fs = fs0
    /\ env \in [canCreate : BOOLEAN, canRead : BOOLEAN, permOk : BOOLEAN]
    /\ rd = [NoRead EXCEPT !.pc = "locate"]
    /\ doc = <<>> /\ overlay = [hasPath |-> FALSE, secs |-> <<>>] /\ mres = NoResult
    /\ wold = NoFile /\ wdoc = <<>> /\ wnew = NoFile

\* Lines 92-107: a candidate that exists is used.
LocateFound ==
    /\ phase = "read" /\ rd.pc = "locate"
    /\ FirstExisting(fs, Candidates(arg)) # "None"
    /\ rd' = [rd EXCEPT !.path = FirstExisting(fs, Candidates(arg)), !.found = TRUE,
                         !.pc = "check_dir", !.trace = Append(@, "found")]
    /\ UNCHANGED <<phase, mvars, wvars, arg, fs0, fs, env>>

\* Lines 105-107: no candidate exists.
LocateNone ==
    /\ phase = "read" /\ rd.pc = "locate"
    /\ FirstExisting(fs, Candidates(arg)) = "None"
    /\ rd' = [rd EXCEPT !.path = BootstrapPath(arg), !.found = FALSE,
                         !.pc = "bootstrap", !.log = Append(@, "info"),
                         !.trace = Append(@, "not_found")]
    /\ UNCHANGED <<phase, mvars, wvars, arg, fs0, fs, env>>

\* Line 108, lines 29-36: bootstrap_config(path).
Bootstrap ==
    /\ phase = "read" /\ rd.pc = "bootstrap"
    /\ LET p == rd.path
           cu == Parse(DEFAULT_CONFIG)
       IN IF fs[p].parent = "file"
          THEN \* os.makedirs on a path that is a file
               rd' = Raise("FileExistsError") /\ fs' = fs
          ELSE IF fs[p].parent = "absent" /\ ~env.canCreate
          THEN rd' = Raise("PermissionError") /\ fs' = fs
          ELSE IF ~fs[p].file.exists /\ ~env.canCreate
          THEN \* os.open cannot create the file
               rd' = Raise("PermissionError") /\ fs' = fs
          ELSE /\ fs' = [fs EXCEPT ![p] = [parent |-> "dir",
                                           file |-> WriteConfigUpdater(fs[p].file, cu)]]
               /\ rd' = [rd EXCEPT !.cu = cu, !.pc = "check_dir",
                                    !.trace = Append(@, "bootstrap")]
    /\ UNCHANGED <<phase, mvars, wvars, arg, fs0, env>>

\* Lines 109-111.
CheckParent ==
    /\ phase = "read" /\ rd.pc = "check_dir"
    /\ rd' = IF fs[rd.path].parent # "absent" /\ fs[rd.path].parent # "dir"
             THEN ExitWithError("not_a_directory")
             ELSE [rd EXCEPT !.pc = "check_perm", !.trace = Append(@, "dir_ok")]
    /\ UNCHANGED <<phase, mvars, wvars, arg, fs0, fs, env>>

\* Lines 113-115.
CheckPermissions ==
    /\ phase = "read" /\ rd.pc = "check_perm"
    /\ rd' = AfterVerify(VerifyFilePermissions(rd.path))
    /\ UNCHANGED <<phase, mvars, wvars, arg, fs0, fs, env>>

\* Lines 117-123: the file that was found is read and parsed.
ParseFile ==
    /\ phase = "read" /\ rd.pc = "parse"
    /\ rd' = IF ~env.canRead \/ ~WellFormed(Parse(fs[rd.path].file.bytes))
             THEN ExitWithError("parse")
             ELSE [rd EXCEPT !.cu = Parse(fs[rd.path].file.bytes), !.pc = "resolve",
                             !.trace = Append(@, "parse")]
    /\ UNCHANGED <<phase, mvars, wvars, arg, fs0, fs, env>>

\* Lines 125-150.
Resolve ==
    /\ phase = "read" /\ rd.pc = "resolve"
    /\ LET cfg == ToDict(rd.cu)
       IN rd' = IF ~HasKey(cfg, "a", "k1") \/ ~HasKey(cfg, "b", "k2")
                THEN Raise("BoxKeyError")
                ELSE LET bad == \E i \in DOMAIN cfg :
                                  /\ cfg[i].sec = "b" /\ cfg[i].key = "k2"
                                  /\ Lower(cfg[i].val) \notin {"true", "false"}
                     IN [rd EXCEPT !.result = [path |-> rd.path, cfg |-> Resolved(rd.cu)],
                                   !.log = IF bad THEN Append(@, "error") ELSE @,
                                   !.status = "returned", !.pc = "done",
                                   !.trace = Append(@, "return")]
    /\ UNCHANGED <<phase, mvars, wvars, arg, fs0, fs, env>>

NextRead ==
    \/ LocateFound
    \/ LocateNone
    \/ Bootstrap
    \/ CheckParent
    \/ CheckPermissions
    \/ ParseFile
    \/ Resolve

SpecRead == InitRead /\ [][NextRead]_vars

(***************************************************************************)
(* Properties of read_config.                                              *)
(***************************************************************************)
InTrace(step) == \E i \in DOMAIN rd.trace : rd.trace[i] = step

\* C6: the permission check is ordered before the parse.  The parse step of
\* a file that was found is reached only after the parent directory check and
\* then the permission check have passed; when the permission check of a
\* file that was found fails, the parse step is never reached, no document
\* is read, and the run ends in exit(1).
C6_PermissionBeforeParse ==
    /\ \A i \in DOMAIN rd.trace :
          rd.trace[i] = "parse" =>
             \E j, k \in 1..(i - 1) :
                 j < k /\ rd.trace[j] = "dir_ok" /\ rd.trace[k] = "perm_ok"
    /\ rd.pc \in {"parse", "resolve"} => InTrace("dir_ok") /\ InTrace("perm_ok")
    /\ rd.found /\ ~VerifyFilePermissions(rd.path) =>
          /\ ~InTrace("parse") /\ rd.pc # "parse" /\ rd.cu = <<>>
          /\ rd.pc = "done" => rd.status = "exit(1)" /\ rd.cause = "permissions"

C6_Witness ==
    /\ rd.found /\ ~VerifyFilePermissions(rd.path) /\ env.canRead
    /\ fs[rd.path].file.mode = "0644"
    /\ rd.status = "exit(1)" /\ rd.cause = "permissions"

\* The path a call of read_config is about: the one given, else the
\* per-user path.
Target == IF arg = "None" THEN "USER" ELSE arg

\* C7 as stated: when read_config is called against a path that does not
\* exist and returns, the parent directory of that path exists, a file
\* with mode 0600 was written there whose parsed content is that of the
\* default template, and the configuration returned carries that path.
C7_AsStated ==
    rd.status = "returned" /\ ~Exists(fs0, Target) =>
        /\ fs[Target].parent = "dir"
        /\ Exists(fs, Target)
        /\ fs[Target].file.mode = "0600"
        /\ Parse(fs[Target].file.bytes) = Parse(DEFAULT_CONFIG)
        /\ rd.result.path = Target

\* C7, amended: when no candidate exists, read_config bootstraps the
\* per-user path, whatever path it was given.  Once bootstrap_config has
\* returned, the per-user path's parent is a directory and its file exists,
\* no other path was touched, and, if the per-user file did not exist
\* before, it has mode 0600 and holds the default template.  The
\* configuration returned is resolved from the template and carries the
\* per-user path.
C7_Bootstrap ==
    /\ InTrace("not_found") => rd.path = "USER"
    /\ InTrace("bootstrap") =>
          /\ fs["USER"].parent = "dir"
          /\ Exists(fs, "USER")
          /\ \A p \in Paths \ {"USER"} : fs[p] = fs0[p]
          /\ ~Exists(fs0, "USER") =>
                /\ fs["USER"].file.mode = "0600"
                /\ fs["USER"].file.bytes = DEFAULT_CONFIG
                /\ Parse(fs["USER"].file.bytes) = DefaultDoc
    /\ rd.status = "returned" /\ ~rd.found =>
          /\ InTrace("bootstrap")
          /\ rd.result = [path |-> "USER", cfg |-> Resolved(DefaultDoc)]

C7_Witness ==
    /\ rd.status = "returned" /\ ~rd.found
    /\ arg = "P"
    /\ fs0["USER"].parent = "absent"
    /\ fs["USER"].file.mode = "0600"

\* C8: fail-fast by process exit.  A run of read_config that met a fatal
\* configuration error (parent not a directory, permissions not verified,
\* file unreadable or unparsable, directory or file not created) has logged
\* an error and ended in exit(1); it has not raised an exception to its
\* caller and returns no configuration.
C8_FailFast ==
    rd.cause \in {"not_a_directory", "permissions", "parse",
                  "FileExistsError", "PermissionError"} =>
        /\ rd.status = "exit(1)"
        /\ rd.log # <<>> /\ rd.log[Len(rd.log)] = "error"
        /\ rd.result.cfg = <<>>

\* C9: bootstrap only when no config file exists.  A run that finds a
\* candidate writes nothing, and no run changes the content of a file that
\* existed, and parsed, when read_config was called.
C9_NoOverwrite ==
    /\ rd.found => fs = fs0
    /\ \A p \in Paths :
          Exists(fs0, p) /\ WellFormed(Parse(fs0[p].file.bytes)) =>
             fs[p].file.bytes = fs0[p].file.bytes

====
